---- MODULE Spec2Model ----
(***************************************************************************)
(* A model of RAG/rag_notebook.ipynb: the notebook's cells and functions   *)
(* as state machines over the notebook's global names.                     *)
(*                                                                         *)
(* Text.  A Python str is a sequence of atoms.  The characters the code    *)
(* tests for are atoms of their own: the en dash, the blank, the comma,    *)
(* the double quote, the brackets, the line feed.  Every other atom is a   *)
(* run of characters the code never looks into ("May 6", "Events").        *)
(*                                                                         *)
(* An optional value (Python None or a value) is a sequence of length 0    *)
(* or 1.                                                                   *)
(***************************************************************************)
EXTENDS Integers, Sequences, FiniteSets, TLC

VARIABLES
    pc,            \* the cell, or the position in a cell, the notebook is at
    lines,         \* resp.json()[...]["extract"].split("\n")
    df,            \* the global DataFrame df
    current_date,  \* the global current_date (None: <<>>)
    it,            \* position of the iterrows() loop
    batch_size,    \* the global batch_size
    idx,           \* the loop variable of the embedding loop
    embeddings,    \* the global list embeddings
    calls,         \* inputs of the embedding service calls made so far
    csv,           \* contents of the file embeddings.csv
    ret,           \* what the last function call returned or raised
    stdout,        \* what the last function call printed
    local          \* the last function call: its name, arguments and locals

vars == <<pc, lines, df, current_date, it, batch_size, idx, embeddings, calls,
          csv, ret, stdout, local>>

(***************************************************************************)
(* Bounds of the model.                                                    *)
(***************************************************************************)
MaxLines == 3

MaxBatchSize == 2

MaxTokenBudget == 30

(***************************************************************************)
(* Python values.                                                          *)
(***************************************************************************)
None == <<>>

Some(x) == <<x>>

\* No function has been called.
NoCall == [fn |-> "none"]

NoResult == [kind |-> "none"]

\* The en dash (U+2013) of the source, written here as an ASCII atom.
SEP == "--"

SP == " "

\* All sequences over S of length at most n.
SeqsUpTo(S, n) == UNION {[1..k -> S] : k \in 0..n}

RECURSIVE SelectIdx(_, _)
\* The positions i >= from, in order, at which the boolean mask is TRUE.
SelectIdx(mask, from) ==
    IF from > Len(mask) THEN <<>>
    ELSE IF mask[from] THEN <<from>> \o SelectIdx(mask, from + 1)
    ELSE SelectIdx(mask, from + 1)

RECURSIVE Flatten(_)
\* The sequences of ss one after the other.
Flatten(ss) == IF ss = <<>> THEN <<>> ELSE Head(ss) \o Flatten(Tail(ss))

(***************************************************************************)
(* str methods the preprocessing uses.                                     *)
(***************************************************************************)
RECURSIVE SplitFirst(_, _)
\* string.split(sep)[0]: the text before the first occurrence of sep.
SplitFirst(s, sep) ==
    IF s = <<>> \/ Head(s) = sep THEN <<>>
    ELSE <<Head(s)>> \o SplitFirst(Tail(s), sep)

RECURSIVE LStrip(_)
LStrip(s) == IF s # <<>> /\ Head(s) = SP THEN LStrip(Tail(s)) ELSE s

RECURSIVE RStrip(_)
RStrip(s) ==
    IF s # <<>> /\ s[Len(s)] = SP THEN RStrip(SubSeq(s, 1, Len(s) - 1)) ELSE s

\* str.strip()
Strip(s) == RStrip(LStrip(s))

\* str.contains(sub) for a one-character pattern
StrContains(s, sub) == \E i \in 1..Len(s) : s[i] = sub

\* Atoms that are runs of "=" of length two or more.
MarkerAtoms == {"==", "==="}

\* str.startswith("==")
StartsWithMarker(s) == s # <<>> /\ s[1] \in MarkerAtoms

(***************************************************************************)
(* dateutil.parser.parse, the external date parser: it returns for the     *)
(* strings it reads as a date and raises for the others (the empty string  *)
(* among them).                                                            *)
(***************************************************************************)
DateStrings == {<<"January 1">>, <<"May 6">>, <<"2023">>}

ParseRaises(s) == s \notin DateStrings

\* Lines 186-192.
is_date(string) ==
    LET possible_date_string == Strip(SplitFirst(string, SEP))
    IN  IF ~ParseRaises(possible_date_string)
        THEN [ok |-> TRUE, date |-> Some(possible_date_string)]
        ELSE [ok |-> FALSE, date |-> None]

(***************************************************************************)
(* DataFrames.  A frame is its index labels, its column names in order,    *)
(* and its rows; a row maps each column name to the cell's value.          *)
(***************************************************************************)
EmptyFrame == [index |-> <<>>, columns |-> <<>>, rows |-> <<>>]

\* pd.DataFrame(); df["text"] = list: a RangeIndex 0..n-1 and one column.
FrameOfTexts(ls) ==
    [index   |-> [i \in 1..Len(ls) |-> i - 1],
     columns |-> <<"text">>,
     rows    |-> [i \in 1..Len(ls) |-> [c \in {"text"} |-> ls[i]]]]

\* df[mask]: the rows at the positions in keep, with their index labels.
TakeRows(d, keep) ==
    [index   |-> [i \in 1..Len(keep) |-> d.index[keep[i]]],
     columns |-> d.columns,
     rows    |-> [i \in 1..Len(keep) |-> d.rows[keep[i]]]]

\* df[(df["text"].str.len() > 0) & (~df["text"].str.startswith("=="))]
KeepsLine(row) == Len(row["text"]) > 0 /\ ~StartsWithMarker(row["text"])

FilterLines(d) ==
    TakeRows(d, SelectIdx([i \in 1..Len(d.rows) |-> KeepsLine(d.rows[i])], 1))

\* df[df["text"].str.contains(en dash)]
HasSeparator(row) == StrContains(row["text"], SEP)

FilterSeparator(d) ==
    TakeRows(d, SelectIdx([i \in 1..Len(d.rows) |-> HasSeparator(d.rows[i])], 1))

(***************************************************************************)
(* The lines of the fetched page.                                          *)
(***************************************************************************)
LinePool ==
    { <<>>,
      <<"==", SP, "Events", SP, "==">>,
      <<"January 1", SP, SEP, SP, "A">>,
      <<"May 6", SEP, "B">>,
      <<"C">>,
      <<"X", SP, SEP, SP, "Y">>,
      <<"2023">>,
      <<"May 6", SP, SEP, SP, "D", ",", SP, "\"", "E", "\"">> }

(***************************************************************************)
(* Preprocessing: the cells of lines 166-168 and 201-209.                  *)
(***************************************************************************)
PrepInit ==
    /\ lines \in SeqsUpTo(LinePool, MaxLines)
    /\ pc = "load"
    /\ df = EmptyFrame
    /\ current_date = None
    /\ it = 0
    /\ batch_size = 0
    /\ idx = 0
    /\ embeddings = <<>>
    /\ calls = <<>>
    /\ csv = <<>>
    /\ ret = NoResult
    /\ stdout = <<>>
    /\ local = NoCall

\* Cell of lines 166-168.
LoadAndFilter ==
    /\ pc = "load"
    /\ df' = FilterLines(FrameOfTexts(lines))
    /\ pc' = "set_current_date"
    /\ UNCHANGED <<lines, current_date, it, batch_size, idx, embeddings, calls,
                   csv, ret, stdout, local>>

\* Line 201.
SetCurrentDate ==
    /\ pc = "set_current_date"
    /\ current_date' = None
    /\ it' = 1
    /\ pc' = "iterrows"
    /\ UNCHANGED <<lines, df, batch_size, idx, embeddings, calls, csv, ret,
                   stdout, local>>

\* The loop body that prepends to dated lines too.
CarryRowAlways(d, i, cur) ==
    LET text == d.rows[i]["text"]
        r    == is_date(text)
        cur2 == IF r.ok THEN r.date ELSE cur
    IN  [current_date |-> cur2,
         df |-> IF cur2 # None
                THEN [d EXCEPT !.rows[i]["text"] = cur2[1] \o <<SP, SEP, SP>> \o text]
                ELSE d]

\* Lines 203-207, for the row at position i: the row that iterrows() yields
\* for this one-column frame of str objects shares the frame's data, so the
\* assignment to row["text"] writes the frame.
CarryRow(d, i, cur) ==
    LET text == d.rows[i]["text"]
        r    == is_date(text)
        cur2 == IF r.ok THEN r.date ELSE cur
    IN  [current_date |-> cur2,
         df |-> IF cur2 # None /\ ~r.ok
                THEN [d EXCEPT !.rows[i]["text"] = cur2[1] \o <<SP, SEP, SP>> \o text]
                ELSE d]

\* One iteration of the loop of line 202.
CarryStep ==
    /\ pc = "iterrows"
    /\ it <= Len(df.rows)
    /\ LET r == CarryRow(df, it, current_date)
       IN  /\ df' = r.df
           /\ current_date' = r.current_date
    /\ it' = it + 1
    /\ UNCHANGED <<pc, lines, batch_size, idx, embeddings, calls, csv, ret,
                   stdout, local>>

\* Line 209, once the loop is exhausted.
KeepSeparatorLines ==
    /\ pc = "iterrows"
    /\ it > Len(df.rows)
    /\ df' = FilterSeparator(df)
    /\ pc' = "prepared"
    /\ UNCHANGED <<lines, current_date, it, batch_size, idx, embeddings, calls,
                   csv, ret, stdout, local>>

PrepNext == LoadAndFilter \/ SetCurrentDate \/ CarryStep \/ KeepSeparatorLines

SpecPrep == PrepInit /\ [][PrepNext]_vars

RECURSIVE CarryFrom(_, _, _)
\* The loop of lines 202-207 from position i on.
CarryFrom(d, i, cur) ==
    IF i > Len(d.rows) THEN d
    ELSE LET r == CarryRow(d, i, cur) IN CarryFrom(r.df, i + 1, r.current_date)

\* The preprocessing cells run in order on the lines ls.
Prepare(ls) == FilterSeparator(CarryFrom(FilterLines(FrameOfTexts(ls)), 1, None))

(***************************************************************************)
(* The embedding service, client.embeddings.create: an external service    *)
(* that answers a list of texts with one vector per text, in the order of  *)
(* the input, or raises.  A vector component k stands for the float k/10.  *)
(***************************************************************************)
AtomVector(a) ==
    CASE a = "A" -> <<2, 0>>
      [] a = "B" -> <<0, 2>>
      [] a = "C" -> <<1, 1>>
      [] a = "D" -> <<-1, 2>>
      [] a = "X" -> <<1, -1>>
      [] a = "Y" -> <<0, 1>>
      [] OTHER   -> <<0, 0>>

RECURSIVE EmbeddingOf(_)
EmbeddingOf(text) ==
    IF text = <<>> THEN <<0, 0>>
    ELSE LET h == AtomVector(Head(text))
             t == EmbeddingOf(Tail(text))
         IN  <<h[1] + t[1], h[2] + t[2]>>

\* response.data for the input list texts.
EmbeddingsCreate(texts) == [j \in 1..Len(texts) |-> EmbeddingOf(texts[j])]

Min(a, b) == IF a < b THEN a ELSE b

\* The greatest element of a set of integers.
Max(S) == CHOOSE m \in S : \A x \in S : x <= m

\* A slice that drops the last text of every batch.
BatchInputShort(d, i, b) ==
    [j \in 1..(Min(i + b - 1, Len(d.rows)) - i) |-> d.rows[i + j]["text"]]

\* df.iloc[idx : idx + batch_size]["text"].tolist(), idx counted from 0.
BatchInput(d, i, b) ==
    [j \in 1..(Min(i + b, Len(d.rows)) - i) |-> d.rows[i + j]["text"]]

\* df[name] = values for a list: positional, and a ValueError when the
\* lengths differ (ok = FALSE).
SetColumn(d, name, values) ==
    IF Len(values) # Len(d.rows) THEN [ok |-> FALSE, df |-> d]
    ELSE [ok |-> TRUE,
          df |-> [d EXCEPT
                    !.columns = IF \E k \in 1..Len(d.columns) : d.columns[k] = name
                                THEN d.columns ELSE Append(d.columns, name),
                    !.rows = [i \in 1..Len(d.rows) |->
                               [c \in (DOMAIN d.rows[i]) \cup {name} |->
                                  IF c = name THEN values[i] ELSE d.rows[i][c]]]]]

(***************************************************************************)
(* Vectorizing the fragments: the cells of lines 225-227, 236-240 and 249. *)
(***************************************************************************)
EmbedInit ==
    /\ lines \in SeqsUpTo(LinePool, MaxLines)
    /\ pc = "init_embeddings"
    /\ df = Prepare(lines)
    /\ current_date = None
    /\ it = 0
    /\ batch_size = 0
    /\ idx = 0
    /\ embeddings = <<>>
    /\ calls = <<>>
    /\ csv = <<>>
    /\ ret = NoResult
    /\ stdout = <<>>
    /\ local = NoCall

\* Cell of lines 225-227.  The notebook sets batch_size = 100; the model
\* runs the loop for every batch size from 1 to MaxBatchSize.
InitEmbeddings ==
    /\ pc = "init_embeddings"
    /\ batch_size' \in 1..MaxBatchSize
    /\ embeddings' = <<>>
    /\ idx' = 0
    /\ pc' = "embed_loop"
    /\ UNCHANGED <<lines, df, current_date, it, calls, csv, ret, stdout, local>>

\* One iteration of the loop of lines 236-240 whose service call returns.
EmbedBatch ==
    /\ pc = "embed_loop"
    /\ idx < Len(df.rows)
    /\ LET input == BatchInput(df, idx, batch_size)
       IN  /\ calls' = Append(calls, input)
           /\ embeddings' = embeddings \o EmbeddingsCreate(input)
    /\ idx' = idx + batch_size
    /\ UNCHANGED <<pc, lines, df, current_date, it, batch_size, csv, ret, stdout, local>>

\* One iteration whose service call raises: the cell stops there.
EmbedBatchRaises ==
    /\ pc = "embed_loop"
    /\ idx < Len(df.rows)
    /\ calls' = Append(calls, BatchInput(df, idx, batch_size))
    /\ pc' = "embed_raised"
    /\ UNCHANGED <<lines, df, current_date, it, batch_size, idx, embeddings, csv,
                   ret, stdout, local>>

\* Cell of line 249, once range(0, len(df), batch_size) is exhausted.
AssignEmbeddings ==
    /\ pc = "embed_loop"
    /\ idx >= Len(df.rows)
    /\ LET r == SetColumn(df, "embeddings", embeddings)
       IN  /\ df' = r.df
           /\ pc' = IF r.ok THEN "embedded" ELSE "assign_raised"
    /\ UNCHANGED <<lines, current_date, it, batch_size, idx, embeddings, calls,
                   csv, ret, stdout, local>>

EmbedNext == InitEmbeddings \/ EmbedBatch \/ EmbedBatchRaises \/ AssignEmbeddings

SpecEmbed == EmbedInit /\ [][EmbedNext]_vars

RECURSIVE EmbedLoop(_, _, _, _)
\* The loop of lines 236-240 from idx = i on, every call returning.
EmbedLoop(d, i, b, acc) ==
    IF i >= Len(d.rows) THEN acc
    ELSE EmbedLoop(d, i + b, b, acc \o EmbeddingsCreate(BatchInput(d, i, b)))

\* The embedding cells run in order on the frame d with batch size b.
Vectorize(d, b) == SetColumn(d, "embeddings", EmbedLoop(d, 0, b, <<>>)).df

(***************************************************************************)
(* Writing embeddings.csv: DataFrame.to_csv with its defaults (the index   *)
(* is written as a first column with an empty header, fields are quoted    *)
(* when they hold a comma, a quote or a line feed, quotes are doubled).    *)
(* A file is a sequence of atoms.                                          *)
(***************************************************************************)
COMMA == ","

QUOTE == "\""

NL == "\n"

DigitChars == <<"0", "1", "2", "3", "4", "5", "6", "7", "8", "9">>

IsDigit(c) == \E d \in 1..10 : DigitChars[d] = c

DigitVal(c) == (CHOOSE d \in 1..10 : DigitChars[d] = c) - 1

RECURSIVE NatRepr(_)
\* str(n) for an int n >= 0
NatRepr(n) ==
    IF n < 10 THEN <<DigitChars[n + 1]>>
    ELSE NatRepr(n \div 10) \o <<DigitChars[(n % 10) + 1]>>

Abs(k) == IF k < 0 THEN -k ELSE k

\* repr of the float k/10: "0.2", "-1.5", "0.0"
FloatRepr(k) ==
    (IF k < 0 THEN <<"-">> ELSE <<>>)
        \o NatRepr(Abs(k) \div 10) \o <<".">> \o <<DigitChars[(Abs(k) % 10) + 1]>>

RECURSIVE ListRepr(_)
\* The elements of str(list) after the first: ", x" for each.
ListRepr(v) ==
    IF v = <<>> THEN <<>>
    ELSE <<COMMA, SP>> \o FloatRepr(Head(v)) \o ListRepr(Tail(v))

\* str(v) for a list of floats: "[0.2, 0.0]"
ListStr(v) ==
    IF v = <<>> THEN <<"[", "]">>
    ELSE <<"[">> \o FloatRepr(Head(v)) \o ListRepr(Tail(v)) \o <<"]">>

RECURSIVE DoubleQuotes(_)
DoubleQuotes(s) ==
    IF s = <<>> THEN <<>>
    ELSE (IF Head(s) = QUOTE THEN <<QUOTE, QUOTE>> ELSE <<Head(s)>>)
             \o DoubleQuotes(Tail(s))

\* A field as csv.writer writes it under QUOTE_MINIMAL.
WriteField(s) ==
    IF \E i \in 1..Len(s) : s[i] \in {COMMA, QUOTE, NL}
    THEN <<QUOTE>> \o DoubleQuotes(s) \o <<QUOTE>>
    ELSE s

RECURSIVE WriteRecord(_)
\* The fields of one record, comma-separated, and the line terminator.
WriteRecord(fields) ==
    IF Len(fields) = 1 THEN WriteField(fields[1]) \o <<NL>>
    ELSE WriteField(Head(fields)) \o <<COMMA>> \o WriteRecord(Tail(fields))

\* The cell of a frame as text.
CellStr(c, v) == IF c = "embeddings" THEN ListStr(v) ELSE v

\* The record of row i: the index label, then the cells in column order.
RowRecord(d, i) ==
    <<NatRepr(d.index[i])>> \o [k \in 1..Len(d.columns) |->
                                  CellStr(d.columns[k], d.rows[i][d.columns[k]])]

\* The header record: an empty name for the index, then the column names.
HeaderRecord(d) == <<<<>>>> \o [k \in 1..Len(d.columns) |-> <<d.columns[k]>>]

\* df.to_csv("embeddings.csv")
ToCsv(d) ==
    WriteRecord(HeaderRecord(d))
        \o Flatten([i \in 1..Len(d.rows) |-> WriteRecord(RowRecord(d, i))])

(***************************************************************************)
(* Reading embeddings.csv: pd.read_csv with its defaults (the first record *)
(* is the header, a column with an empty header is named "Unnamed: k", no  *)
(* column becomes the index, a column of integers is read as integers, and *)
(* the fields that spell a missing value are read as NaN), and the         *)
(* conversion of line 299.                                                 *)
(***************************************************************************)
\* A position i of a text lies outside a quoted field: an even number of
\* the text's quotes, at the positions quotes, comes before it (quotes
\* inside a quoted field come in pairs).
Unquoted(quotes, i) == Cardinality({j \in quotes : j < i}) % 2 = 0

\* The k-th smallest element of the set S of integers.
Nth(S, k) == CHOOSE x \in S : Cardinality({y \in S : y < x}) = k - 1

\* The pieces of s[lo..hi] between the positions in cuts.
Pieces(s, lo, hi, cuts) ==
    LET inside == {c \in cuts : lo <= c /\ c <= hi}
        n      == Cardinality(inside)
        from(k) == IF k = 1 THEN lo ELSE Nth(inside, k - 1) + 1
        to(k)   == IF k = n + 1 THEN hi ELSE Nth(inside, k) - 1
    IN  [k \in 1..(n + 1) |-> SubSeq(s, from(k), to(k))]

RECURSIVE UndoubleQuotes(_)
UndoubleQuotes(f) ==
    IF f = <<>> THEN <<>>
    ELSE IF Len(f) >= 2 /\ f[1] = QUOTE /\ f[2] = QUOTE
         THEN <<QUOTE>> \o UndoubleQuotes(Tail(Tail(f)))
    ELSE <<Head(f)>> \o UndoubleQuotes(Tail(f))

\* The value of a field as written: a quoted field without its quotes.
ReadField(f) ==
    IF Len(f) >= 2 /\ f[1] = QUOTE /\ f[Len(f)] = QUOTE
    THEN UndoubleQuotes(SubSeq(f, 2, Len(f) - 1))
    ELSE f

\* The fields of the record s[lo..hi], cut at the commas outside quotes.
ParseRecord(s, lo, hi, commas) ==
    LET fs == Pieces(s, lo, hi, commas)
    IN  [j \in 1..Len(fs) |-> ReadField(fs[j])]

\* The records of the text s, each the sequence of its fields: records end
\* at the line feeds outside quotes, fields at the commas outside quotes.
ParseCsv(s) ==
    LET quotes == {i \in 1..Len(s) : s[i] = QUOTE}
        ends   == {i \in 1..Len(s) : s[i] = NL /\ Unquoted(quotes, i)}
        commas == {i \in 1..Len(s) : s[i] = COMMA /\ Unquoted(quotes, i)}
        n      == Cardinality(ends)
        from(k) == IF k = 1 THEN 1 ELSE Nth(ends, k - 1) + 1
    IN  [k \in 1..n |-> ParseRecord(s, from(k), Nth(ends, k) - 1, commas)]

UnnamedColumns == <<"Unnamed: 0", "Unnamed: 1", "Unnamed: 2">>

\* The name of column k from its header field.
ColumnName(header, k) ==
    IF header[k] = <<>> THEN UnnamedColumns[k] ELSE header[k][1]

IsIntString(f) == f # <<>> /\ \A i \in 1..Len(f) : IsDigit(f[i])

RECURSIVE ParseNat(_, _)
ParseNat(f, acc) ==
    IF f = <<>> THEN acc ELSE ParseNat(Tail(f), (acc * 10) + DigitVal(Head(f)))

\* Fields read_csv takes for a missing value.
NaValues == {<<>>, <<"NA">>, <<"N/A">>, <<"NaN">>, <<"nan">>, <<"null">>, <<"NULL">>}

NaN == <<"NaN">>

\* The value of field f of a column; isint: all of the column's fields
\* spell integers.
ConvertField(isint, f) ==
    IF isint THEN ParseNat(f, 0)
    ELSE IF f \in NaValues THEN NaN
    ELSE f

\* pd.read_csv(...) of the text s.
ReadCsv(s) ==
    LET recs   == ParseCsv(s)
        header == recs[1]
        body   == Tail(recs)
        names  == [k \in 1..Len(header) |-> ColumnName(header, k)]
        isint  == [c \in {names[k] : k \in 1..Len(names)} |->
                     LET k == CHOOSE k \in 1..Len(names) : names[k] = c
                     IN  \A i \in 1..Len(body) : IsIntString(body[i][k])]
    IN  [index   |-> [i \in 1..Len(body) |-> i - 1],
         columns |-> names,
         rows    |-> [i \in 1..Len(body) |->
                        [c \in {names[k] : k \in 1..Len(names)} |->
                           LET k == CHOOSE k \in 1..Len(names) : names[k] = c
                           IN  ConvertField(isint[c], body[i][k])]]]

RECURSIVE StripBrackets(_)
\* x.strip("[]")
StripBrackets(x) ==
    IF x # <<>> /\ Head(x) \in {"[", "]"} THEN StripBrackets(Tail(x))
    ELSE IF x # <<>> /\ x[Len(x)] \in {"[", "]"}
         THEN StripBrackets(SubSeq(x, 1, Len(x) - 1))
    ELSE x

RECURSIVE SplitAll(_, _, _)
\* The pieces of s between the occurrences of sep; cur: the piece being read.
SplitAll(s, sep, cur) ==
    IF s = <<>> THEN <<cur>>
    ELSE IF Head(s) = sep THEN <<cur>> \o SplitAll(Tail(s), sep, <<>>)
    ELSE SplitAll(Tail(s), sep, Append(cur, Head(s)))

\* The float a piece spells, in tenths: a sign, the integer digits, a point
\* and one fractional digit.
ParseFloat(f) ==
    LET neg  == f # <<>> /\ Head(f) = "-"
        body == IF neg THEN Tail(f) ELSE f
        dot  == CHOOSE i \in 1..Len(body) : body[i] = "."
        mag  == (ParseNat(SubSeq(body, 1, dot - 1), 0) * 10)
                    + DigitVal(body[dot + 1])
    IN  IF neg THEN -mag ELSE mag

\* np.fromstring(x, sep=","): the floats between the commas, blanks skipped.
FromString(x) ==
    IF Strip(x) = <<>> THEN <<>>
    ELSE LET pieces == SplitAll(x, COMMA, <<>>)
         IN  [j \in 1..Len(pieces) |-> ParseFloat(Strip(pieces[j]))]

\* Lines 298-299.
LoadCorpus(s) ==
    LET d == ReadCsv(s)
    IN  [d EXCEPT !.rows = [i \in 1..Len(d.rows) |->
            [d.rows[i] EXCEPT !["embeddings"] = FromString(StripBrackets(@))]]]

(***************************************************************************)
(* Persisting the corpus: the cells of lines 265 and 298-299.              *)
(***************************************************************************)
StoreInit ==
    /\ lines \in SeqsUpTo(LinePool, MaxLines)
    /\ batch_size \in 1..MaxBatchSize
    /\ pc = "save"
    /\ df = Vectorize(Prepare(lines), batch_size)
    /\ current_date = None
    /\ it = 0
    /\ idx = 0
    /\ embeddings = <<>>
    /\ calls = <<>>
    /\ csv = <<>>
    /\ ret = NoResult
    /\ stdout = <<>>
    /\ local = NoCall

\* Cell of line 265.
SaveCsv ==
    /\ pc = "save"
    /\ csv' = ToCsv(df)
    /\ pc' = "saved"
    /\ UNCHANGED <<lines, df, current_date, it, batch_size, idx, embeddings,
                   calls, ret, stdout, local>>

\* Cell of lines 298-299.
LoadCsv ==
    /\ pc = "saved"
    /\ df' = LoadCorpus(csv)
    /\ pc' = "loaded"
    /\ UNCHANGED <<lines, current_date, it, batch_size, idx, embeddings, calls,
                   csv, ret, stdout, local>>

StoreNext == SaveCsv \/ LoadCsv

SpecStore == StoreInit /\ [][StoreNext]_vars

(***************************************************************************)
(* Query time.  The functions take the frame by reference: memory is a     *)
(* sequence of frames, a reference is a position in it, and the global df  *)
(* is reference 1.  A function yields the set of outcomes it can have,     *)
(* each the memory it leaves and what it returns or that it raised.  svc   *)
(* is what the external services do during the call: whether the embedding *)
(* call and the completion call return, and the completion's text.         *)
(***************************************************************************)
\* text.replace("\n", " ")
ReplaceNewlines(text) ==
    [i \in 1..Len(text) |-> IF text[i] = NL THEN SP ELSE text[i]]

\* Lines 319-321, the service call returning.
get_embedding(text) == EmbeddingOf(ReplaceNewlines(text))

Dot(u, v) == (u[1] * v[1]) + (u[2] * v[2])

\* scipy.spatial.distance.cosine(u, v) = 1 - u.v / (|u| |v|), kept exactly
\* as the pair (u.v, |u|^2 |v|^2); NaN when one of the vectors is zero.
CosineDistance(u, v) == [num |-> Dot(u, v), den |-> Dot(u, u) * Dot(v, v)]

IsNaNDistance(a) == a.den = 0

\* a <= b for two distances that are numbers:
\* a.num / sqrt(a.den) >= b.num / sqrt(b.den).
NumberLeq(a, b) ==
    IF a.num >= 0 /\ b.num <= 0 THEN TRUE
    ELSE IF a.num < 0 /\ b.num >= 0 THEN FALSE
    ELSE IF a.num >= 0
         THEN (a.num * a.num) * b.den >= (b.num * b.num) * a.den
    ELSE (a.num * a.num) * b.den <= (b.num * b.num) * a.den

\* The order sort_values(ascending=False) sorts by.
DistGeq(a, b) ==
    IF IsNaNDistance(b) THEN TRUE
    ELSE IF IsNaNDistance(a) THEN FALSE
    ELSE NumberLeq(b, a)

\* The order sort_values(ascending=True) sorts by: NaN goes last.
DistLeq(a, b) ==
    IF IsNaNDistance(b) THEN TRUE
    ELSE IF IsNaNDistance(a) THEN FALSE
    ELSE NumberLeq(a, b)

\* Lines 324-334 with distance_metric = "cosine".
distances_from_embeddings(query_embedding, embs) ==
    [i \in 1..Len(embs) |-> CosineDistance(query_embedding, embs[i])]

\* p with x put after its first k elements.
InsertAt(p, k, x) == SubSeq(p, 1, k) \o <<x>> \o SubSeq(p, k + 1, Len(p))

\* The places x can take in the sorted p: after the keys below its own and
\* before those above; among equal keys the sort (the default
\* kind="quicksort", which is not stable) promises no order.
InsertOutcomes(p, x, d) ==
    {InsertAt(p, k, x) : k \in {k \in 0..Len(p) :
        /\ \A j \in 1..k : DistLeq(d[p[j]], d[x])
        /\ \A j \in (k + 1)..Len(p) : DistLeq(d[x], d[p[j]])}}

RECURSIVE SortOutcomes(_, _)
\* The orders sort_values can leave the positions 1..n in, by the keys d.
SortOutcomes(d, n) ==
    IF n = 0 THEN {<<>>}
    ELSE UNION {InsertOutcomes(p, n, d) : p \in SortOutcomes(d, n - 1)}

\* df_copy = df, which copies nothing.
DfAlias(h, r) == [heap |-> h, ref |-> r]

\* df.copy(): a new frame with the rows of the old one.
DfCopy(h, r) == [heap |-> Append(h, h[r]), ref |-> Len(h) + 1]

\* Lines 350-357.
get_rows_by_relevance(question, h, r, svc) ==
    IF ~svc.embed_ok THEN {[heap |-> h, raised |-> TRUE, ref |-> 0]}
    ELSE
        LET q_embedding == get_embedding(question)
            c  == DfCopy(h, r)
            f0 == c.heap[c.ref]
            d  == distances_from_embeddings(q_embedding,
                      [i \in 1..Len(f0.rows) |-> f0.rows[i]["embeddings"]])
            f1 == SetColumn(f0, "distances", d).df
        IN  {[heap   |-> [c.heap EXCEPT ![c.ref] = TakeRows(f1, p)],
              raised |-> FALSE,
              ref    |-> c.ref] : p \in SortOutcomes(d, Len(d))}

(***************************************************************************)
(* tiktoken's cl100k_base encoding, the external tokenizer: a token is an  *)
(* atom, and a blank is encoded together with the atom that follows it.    *)
(***************************************************************************)
RECURSIVE Encode(_)
Encode(text) ==
    IF text = <<>> THEN <<>>
    ELSE IF Head(text) = SP /\ Len(text) >= 2 /\ text[2] # SP
         THEN <<<<SP, text[2]>>>> \o Encode(Tail(Tail(text)))
    ELSE <<<<Head(text)>>>> \o Encode(Tail(text))

\* len(tokenizer.encode(text))
NumTokens(text) == Len(Encode(text))

\* Lines 377-388; "{}" is a replacement field.
prompt_template ==
    <<NL, "Answer the question based on the context below, and if the question",
      NL, "can't be answered based on the context, say \"I don't know\"",
      NL, NL, "Context:", SP, NL, NL, "{}", NL, NL, "---", NL, NL,
      "Question:", SP, "{}", NL, "Answer:">>

\* The separator of line 401: two line feeds, "###", two line feeds.
ContextSeparator == <<NL, NL, "###", NL, NL>>

RECURSIVE Join(_, _)
\* sep.join(parts)
Join(sep, parts) ==
    IF parts = <<>> THEN <<>>
    ELSE IF Len(parts) = 1 THEN parts[1]
    ELSE parts[1] \o sep \o Join(sep, Tail(parts))

RECURSIVE Format(_, _)
\* template.format(*args): the replacement fields take the arguments in order.
Format(template, args) ==
    IF template = <<>> THEN <<>>
    ELSE IF Head(template) = "{}"
         THEN Head(args) \o Format(Tail(template), Tail(args))
    ELSE <<Head(template)>> \o Format(Tail(template), args)

RECURSIVE ContextLoopSkip(_, _, _, _, _)
\* The loop with an overflowing text skipped and the scan going on.
ContextLoopSkip(texts, i, count, max_token_count, context) ==
    IF i > Len(texts) THEN context
    ELSE IF count + NumTokens(texts[i]) < max_token_count
         THEN ContextLoopSkip(texts, i + 1, count + NumTokens(texts[i]),
                              max_token_count, Append(context, texts[i]))
    ELSE ContextLoopSkip(texts, i + 1, count, max_token_count, context)

RECURSIVE ContextLoop(_, _, _, _, _)
\* The loop of lines 394-399 from the i-th text on; count is
\* current_token_count.
ContextLoop(texts, i, count, max_token_count, context) ==
    IF i > Len(texts) THEN context
    ELSE LET current_token_count == count + NumTokens(texts[i])
         IN  IF current_token_count < max_token_count
             THEN ContextLoop(texts, i + 1, current_token_count,
                              max_token_count, Append(context, texts[i]))
             ELSE context

\* Lines 376-401.  Beside what it returns, an outcome shows the locals the
\* claims speak of: the ranked texts and the list context.
create_prompt(question, h, r, max_token_count, svc) ==
    {IF o.raised
     THEN [heap |-> o.heap, raised |-> TRUE, value |-> <<>>,
           ranked |-> <<>>, context |-> <<>>]
     ELSE LET f      == o.heap[o.ref]
              texts  == [i \in 1..Len(f.rows) |-> f.rows[i]["text"]]
              count0 == NumTokens(prompt_template) + NumTokens(question)
              context == ContextLoop(texts, 1, count0, max_token_count, <<>>)
          IN  [heap |-> o.heap, raised |-> FALSE,
               value |-> Format(prompt_template,
                                <<Join(ContextSeparator, context), question>>),
               ranked |-> texts, context |-> context]
     : o \in get_rows_by_relevance(question, h, r, svc)}

\* What the embedding service and the completion service raise.
EmbeddingError == <<"embedding service error">>

CompletionError == <<"completion service error">>

\* An except clause that returns without printing.
ExceptSilently(e, prompt) ==
    [raised |-> FALSE, value |-> <<<<>>, prompt>>, stdout |-> <<>>]

\* Lines 431-433: print(e); return "", prompt
ExceptPrintAndReturn(e, prompt) ==
    [raised |-> FALSE, value |-> <<<<>>, prompt>>, stdout |-> <<e>>]

\* Lines 417-433.  An outcome also shows the prompts sent to the completion
\* service and what the call printed.
answer_question(question, h, r, max_prompt_tokens, svc) ==
    {IF o.raised
     THEN [heap |-> o.heap, raised |-> TRUE, value |-> <<>>, stdout |-> <<>>,
           sent |-> <<>>, inner |-> o]
     ELSE LET prompt == o.value
              res == IF svc.complete_ok
                     THEN [raised |-> FALSE,
                           value |-> <<svc.completion, prompt>>,
                           stdout |-> <<>>]
                     ELSE ExceptPrintAndReturn(CompletionError, prompt)
          IN  [heap |-> o.heap, raised |-> res.raised, value |-> res.value,
               stdout |-> res.stdout, sent |-> <<prompt>>, inner |-> o]
     : o \in create_prompt(question, h, r, max_prompt_tokens, svc)}

(***************************************************************************)
(* The query cells: calls of the three functions on the loaded corpus.     *)
(***************************************************************************)
QuestionPool == {<<"A", "?">>, <<"B", NL, "C", "?">>}

\* The lines of the page the query cells' corpora are built from.
QueryLinePool ==
    { <<"January 1", SP, SEP, SP, "A">>,
      <<"May 6", SEP, "B">>,
      <<"X", SP, SEP, SP, "Y">>,
      <<"May 6", SP, SEP, SP, "D", ",", SP, "\"", "E", "\"">> }

\* The values max_token_count takes (1500 by default in answer_question;
\* the model's prompts are a few dozen tokens long).
TokenBudgets == {0} \cup (24..MaxTokenBudget)

CompletionPool == {<<SP, "GPT-4">>}

\* The corpus the build cells leave in df for the lines ls.
LoadedCorpus(ls) == LoadCorpus(ToCsv(Vectorize(Prepare(ls), MaxBatchSize)))

QueryInit ==
    /\ lines \in SeqsUpTo(QueryLinePool, MaxLines)
    /\ pc = "idle"
    /\ df = LoadedCorpus(lines)
    /\ batch_size = MaxBatchSize
    /\ current_date = None
    /\ it = 0
    /\ idx = 0
    /\ embeddings = <<>>
    /\ calls = <<>>
    /\ csv = ToCsv(Vectorize(Prepare(lines), MaxBatchSize))
    /\ ret = NoResult
    /\ stdout = <<>>
    /\ local = NoCall

Raised(e) == [kind |-> "raised", exc |-> e]

Returned(v) == [kind |-> "value", value |-> v]

\* A call get_rows_by_relevance(question, df).
CallGetRowsByRelevance ==
    /\ pc = "idle"
    /\ \E question \in QuestionPool, embed_ok \in BOOLEAN :
         \E o \in get_rows_by_relevance(question, <<df>>, 1,
                                        [embed_ok |-> embed_ok]) :
            /\ df' = o.heap[1]
            /\ ret' = IF o.raised THEN Raised(EmbeddingError)
                      ELSE Returned(o.heap[o.ref])
            /\ local' = [fn |-> "get_rows_by_relevance", question |-> question,
                         max_token_count |-> 0, ranked |-> <<>>,
                         context |-> <<>>]
    /\ stdout' = <<>>
    /\ calls' = <<>>
    /\ pc' = "returned"
    /\ UNCHANGED <<lines, current_date, it, batch_size, idx, embeddings, csv>>

\* A call create_prompt(question, df, max_token_count).
CallCreatePrompt ==
    /\ pc = "idle"
    /\ \E question \in QuestionPool, max_token_count \in TokenBudgets,
          embed_ok \in BOOLEAN :
         \E o \in create_prompt(question, <<df>>, 1, max_token_count,
                                [embed_ok |-> embed_ok]) :
            /\ df' = o.heap[1]
            /\ ret' = IF o.raised THEN Raised(EmbeddingError)
                      ELSE Returned(o.value)
            /\ local' = [fn |-> "create_prompt", question |-> question,
                         max_token_count |-> max_token_count,
                         ranked |-> o.ranked, context |-> o.context]
    /\ stdout' = <<>>
    /\ calls' = <<>>
    /\ pc' = "returned"
    /\ UNCHANGED <<lines, current_date, it, batch_size, idx, embeddings, csv>>

\* A call answer_question(question, df, max_prompt_tokens); calls takes the
\* prompts the completion service was sent.
CallAnswerQuestion ==
    /\ pc = "idle"
    /\ \E question \in QuestionPool, max_prompt_tokens \in TokenBudgets,
          embed_ok \in BOOLEAN, complete_ok \in BOOLEAN,
          completion \in CompletionPool :
         \E o \in answer_question(question, <<df>>, 1, max_prompt_tokens,
                                  [embed_ok |-> embed_ok,
                                   complete_ok |-> complete_ok,
                                   completion |-> completion]) :
            /\ df' = o.heap[1]
            /\ ret' = IF o.raised THEN Raised(EmbeddingError)
                      ELSE Returned(o.value)
            /\ stdout' = o.stdout
            /\ calls' = o.sent
            /\ local' = [fn |-> "answer_question", question |-> question,
                         max_token_count |-> max_prompt_tokens,
                         ranked |-> o.inner.ranked,
                         context |-> o.inner.context,
                         complete_ok |-> complete_ok,
                         completion |-> completion]
    /\ pc' = "returned"
    /\ UNCHANGED <<lines, current_date, it, batch_size, idx, embeddings, csv>>

\* The notebook goes on to its next cell; what the call returned is dropped.
NextCell ==
    /\ pc = "returned"
    /\ pc' = "idle"
    /\ ret' = NoResult
    /\ stdout' = <<>>
    /\ calls' = <<>>
    /\ local' = NoCall
    /\ UNCHANGED <<lines, df, current_date, it, batch_size, idx, embeddings, csv>>

QueryNext ==
    CallGetRowsByRelevance \/ CallCreatePrompt \/ CallAnswerQuestion \/ NextCell

SpecQuery == QueryInit /\ [][QueryNext]_vars

(***************************************************************************)
(* Claims about preprocessing.                                             *)
(***************************************************************************)
\* The filtered lines the carry-forward loop scans.
FilteredLines == FilterLines(FrameOfTexts(lines)).rows

\* The leading token of a line: its text before the separator, stripped.
LeadingToken(l) == Strip(SplitFirst(l, SEP))

Dated(l) == LeadingToken(l) \in DateStrings

\* The positions before i of the dated lines among the filtered lines.
DatedBefore(i) == {j \in 1..(i - 1) : Dated(FilteredLines[j]["text"])}

\* What carry-forward makes of the filtered line at position i.
CarriedText(i) ==
    LET l == FilteredLines[i]["text"]
    IN  IF Dated(l) \/ DatedBefore(i) = {} THEN l
        ELSE LeadingToken(FilteredLines[Max(DatedBefore(i))]["text"])
                 \o <<SP, SEP, SP>> \o l

\* C3: while the loop runs and after it, every line already scanned is the
\* line itself when it is dated or no dated line came before it, and
\* otherwise the date of the most recent dated line before it, the
\* separator and the line; the lines not yet scanned are as they were; and
\* current_date is the date of the most recent dated line scanned, absent
\* when there is none.
C3_CarryForward ==
    pc = "iterrows" =>
        /\ Len(df.rows) = Len(FilteredLines)
        /\ \A i \in 1..Len(df.rows) :
              df.rows[i]["text"] = IF i < it THEN CarriedText(i)
                                   ELSE FilteredLines[i]["text"]
        /\ current_date = IF DatedBefore(it) = {} THEN None
                          ELSE Some(LeadingToken(
                                   FilteredLines[Max(DatedBefore(it))]["text"]))

\* The loop has scanned an undated line met before any dated line, then a
\* dated line, then an undated line, which it has rewritten.
C3_Witness ==
    /\ pc = "iterrows"
    /\ it = 4
    /\ Len(df.rows) = 3
    /\ ~Dated(FilteredLines[1]["text"])
    /\ Dated(FilteredLines[2]["text"])
    /\ ~Dated(FilteredLines[3]["text"])
    /\ df.rows[1]["text"] = FilteredLines[1]["text"]
    /\ df.rows[3]["text"] # FilteredLines[3]["text"]

\* A text that begins with a date tag followed by the separator.
BeginsWithDateTag(text) == StrContains(text, SEP) /\ Dated(text)

\* C4: every fragment that survives preprocessing begins with a date tag
\* followed by the separator.
C4_SurvivorsAreDated ==
    pc = "prepared" =>
        \A i \in 1..Len(df.rows) : BeginsWithDateTag(df.rows[i]["text"])

(***************************************************************************)
(* Claims about vectorizing.                                               *)
(***************************************************************************)
\* C10: when the cells have run, every call held at least one and at most
\* batch_size texts, the calls' inputs one after the other are the
\* fragments' texts in order (each fragment in exactly one call), and there
\* are as many embeddings as fragments, the i-th being the vector of the
\* i-th fragment's text, in the list and in the frame's column; the cell of
\* line 249 never raises.
C10_BatchesInOrder ==
    /\ pc # "assign_raised"
    /\ pc = "embedded" =>
        /\ \A c \in 1..Len(calls) :
              Len(calls[c]) >= 1 /\ Len(calls[c]) <= batch_size
        /\ Flatten(calls) = [i \in 1..Len(df.rows) |-> df.rows[i]["text"]]
        /\ Len(embeddings) = Len(df.rows)
        /\ \A i \in 1..Len(df.rows) :
              /\ embeddings[i] = EmbeddingOf(df.rows[i]["text"])
              /\ df.rows[i]["embeddings"] = embeddings[i]

\* Three fragments went out in batches of two: a full call and a short one.
C10_Witness ==
    /\ pc = "embedded"
    /\ Len(df.rows) = 3
    /\ batch_size = 2
    /\ Len(calls) = 2
    /\ df.rows[1]["embeddings"] # df.rows[2]["embeddings"]

\* An empty corpus went through the cells: no call, no embedding.
C10_WitnessEmpty == pc = "embedded" /\ Len(df.rows) = 0 /\ calls = <<>>

(***************************************************************************)
(* Claims about persistence.                                               *)
(***************************************************************************)
\* The corpus the cell of line 265 saved.
SavedCorpus == Vectorize(Prepare(lines), batch_size)

\* C9: the corpus loaded from what save wrote has the fields of the saved
\* corpus, as many fragments in the same order, and each fragment's text
\* and embedding.
C9_LoadOfSaveIsEqual ==
    pc = "loaded" =>
        /\ df.columns = SavedCorpus.columns
        /\ Len(df.rows) = Len(SavedCorpus.rows)
        /\ \A i \in 1..Len(df.rows) :
              /\ DOMAIN df.rows[i] = DOMAIN SavedCorpus.rows[i]
              /\ df.rows[i]["text"] = SavedCorpus.rows[i]["text"]
              /\ df.rows[i]["embeddings"] = SavedCorpus.rows[i]["embeddings"]

\* What does survive the round trip: the text and embeddings columns, row
\* by row, beside the added column that holds the saved index labels.
StoreKeepsTextAndEmbeddings ==
    pc = "loaded" =>
        /\ df.columns = <<"Unnamed: 0">> \o SavedCorpus.columns
        /\ Len(df.rows) = Len(SavedCorpus.rows)
        /\ \A i \in 1..Len(df.rows) :
              /\ df.rows[i]["Unnamed: 0"] = SavedCorpus.index[i]
              /\ df.rows[i]["text"] = SavedCorpus.rows[i]["text"]
              /\ df.rows[i]["embeddings"] = SavedCorpus.rows[i]["embeddings"]

(***************************************************************************)
(* Claims about the query functions.                                       *)
(***************************************************************************)
\* A call of fn has returned a value.
HasReturned(fn) == pc = "returned" /\ local.fn = fn /\ ret.kind = "value"

\* A call that assembles a prompt has assembled it.
PromptAssembled ==
    /\ pc = "returned"
    /\ local.fn \in {"create_prompt", "answer_question"}
    /\ ret.kind = "value"

RECURSIVE SumTokens(_, _)
\* The tokens of the first n texts.
SumTokens(texts, n) ==
    IF n = 0 THEN 0 ELSE SumTokens(texts, n - 1) + NumTokens(texts[n])

\* The tokens of the template and the question.
BaseTokens == NumTokens(prompt_template) + NumTokens(local.question)

\* C1: the assembled prompt's token count, the template plus the question
\* plus the joined context block with its separators, is strictly below
\* max_token_count.
C1_TotalBelowBudget ==
    PromptAssembled =>
        BaseTokens + NumTokens(Join(ContextSeparator, local.context))
            < local.max_token_count

\* C1 for the budgets that admit the template and the question at all.
C1_BelowBudgetWhenAdmitted ==
    (PromptAssembled /\ BaseTokens < local.max_token_count) =>
        BaseTokens + NumTokens(Join(ContextSeparator, local.context))
            < local.max_token_count

\* The longest prefix of the ranked texts whose running total stays below
\* the budget at every step.
FittingPrefix ==
    Max({n \in 0..Len(local.ranked) :
            \A j \in 1..n :
                BaseTokens + SumTokens(local.ranked, j) < local.max_token_count})

\* C2: the accepted context is exactly the longest prefix of the ranked
\* fragments whose running total (template, question and accepted texts)
\* stays strictly below max_token_count: whole texts, in ranked order, and
\* nothing after the first text that would reach the budget.
C2_FirstOverflowStops ==
    PromptAssembled =>
        local.context = SubSeq(local.ranked, 1, FittingPrefix)

\* The scan stopped at a text that would reach the budget although a
\* later text would have fitted, after it had accepted one.
C2_Witness ==
    /\ PromptAssembled
    /\ Len(local.context) >= 1
    /\ Len(local.context) + 2 <= Len(local.ranked)
    /\ \E j \in (Len(local.context) + 2)..Len(local.ranked) :
          BaseTokens + SumTokens(local.context, Len(local.context))
              + NumTokens(local.ranked[j]) < local.max_token_count

\* C5: answer_question raises only when assembling the prompt raised, and
\* then the completion service was not called; otherwise it called the
\* service once, with the assembled prompt, and returned that prompt with
\* the completion's text when the call succeeded, printing nothing, and
\* with the empty string when the call raised, having printed the error.
C5_CompletionFailureSwallowed ==
    (pc = "returned" /\ local.fn = "answer_question") =>
        /\ ret.kind = "raised" => calls = <<>>
        /\ ret.kind = "value" =>
            /\ Len(calls) = 1
            /\ calls[1] = Format(prompt_template,
                              <<Join(ContextSeparator, local.context),
                                local.question>>)
            /\ ret.value[2] = calls[1]
            /\ IF local.complete_ok
               THEN ret.value[1] = local.completion /\ stdout = <<>>
               ELSE ret.value[1] = <<>> /\ stdout = <<CompletionError>>

\* The completion call raised after a prompt with a context was assembled.
C5_Witness ==
    /\ HasReturned("answer_question")
    /\ ~local.complete_ok
    /\ Len(local.context) >= 1
    /\ ret.value[1] = <<>>

\* The positions of the returned frame that hold the corpus row labelled l.
PositionsOf(f, l) == {i \in 1..Len(f.index) : f.index[i] = l}

\* C6: the frame get_rows_by_relevance returns holds every fragment of the
\* corpus exactly once, with its text and embedding, each with its cosine
\* distance to the question's vector, in non-decreasing order of distance.
C6_RankedAscending ==
    HasReturned("get_rows_by_relevance") =>
        LET f == ret.value
            q == EmbeddingOf(ReplaceNewlines(local.question))
        IN  /\ Len(f.rows) = Len(df.rows)
            /\ \A k \in 1..Len(df.rows) :
                  /\ Cardinality(PositionsOf(f, df.index[k])) = 1
                  /\ \A i \in PositionsOf(f, df.index[k]) :
                        /\ f.rows[i]["text"] = df.rows[k]["text"]
                        /\ f.rows[i]["embeddings"] = df.rows[k]["embeddings"]
            /\ \A i \in 1..Len(f.rows) :
                  LET e == f.rows[i]["embeddings"]
                  IN  f.rows[i]["distances"] =
                          [num |-> Dot(q, e), den |-> Dot(q, q) * Dot(e, e)]
            /\ \A i, j \in 1..Len(f.rows) :
                  i < j => NumberLeq(f.rows[i]["distances"],
                                     f.rows[j]["distances"])

\* Three fragments came back in an order that is not the corpus order.
C6_Witness ==
    /\ HasReturned("get_rows_by_relevance")
    /\ Len(ret.value.rows) = 3
    /\ ret.value.index # df.index

\* C7: two fragments at equal distance come back in their corpus order.
C7_TiesInCorpusOrder ==
    HasReturned("get_rows_by_relevance") =>
        LET f == ret.value
        IN  \A i, j \in 1..Len(f.rows) :
               (/\ i < j
                /\ NumberLeq(f.rows[i]["distances"], f.rows[j]["distances"])
                /\ NumberLeq(f.rows[j]["distances"], f.rows[i]["distances"]))
                   => f.index[i] < f.index[j]

\* C8: whatever calls were made, and whether they returned or raised, df
\* is the corpus that was loaded: the same rows in the same order, the same
\* columns.
C8_CorpusUnchanged == df = LoadedCorpus(lines)

\* A call that ranked a corpus of several fragments has ended, the
\* completion call having raised.
C8_Witness ==
    /\ pc = "returned"
    /\ local.fn = "answer_question"
    /\ ~local.complete_ok
    /\ Len(local.ranked) >= 2
    /\ local.ranked # [i \in 1..Len(df.rows) |-> df.rows[i]["text"]]

====
